---- MODULE Spec2Model ----
(***************************************************************************)
(* SemanticCache of the weather-agent backend                              *)
(* (ai-weather-agent/backend/src/main.py): an embedding-keyed cache with   *)
(* TTL expiry, used by several asyncio tasks of one event loop.            *)
(*                                                                         *)
(* Code between two awaits runs atomically on the event loop, so one       *)
(* action is one run of a coroutine from a suspension point to the next.   *)
(* get and set suspend in two places only: in Lock.acquire when the lock   *)
(* is taken, and in the awaited embedding request.                         *)
(*                                                                         *)
(* Floating point is modelled by exact arithmetic: an embedding is a       *)
(* vector of integers and a cosine similarity is the pair (num, den2)      *)
(* standing for num / sqrt(den2).  Time is an integer clock.               *)
(***************************************************************************)
EXTENDS Integers, Sequences, FiniteSets, TLC

\* ------------------------------------------------------------------ bounds
MaxTime == 2
TTL == 1
MaxSets == 2
MaxBatch == 11
Varied == 2
MaxChunks == 3
MaxImages == 3

Tasks == {"t1", "t2"}
NoTask == "none"

\* The texts callers pass and the values they cache.  normalized_city is
\* absent (None), the empty string, or a canonical name.
NoText == "None"
Values == {"v1", "v2"}
NoValue == "None"

\* (text, normalized_city) of the calls of the concurrent tasks ...
Requests ==
    {[text |-> "paris", normalized_city |-> NoText],
     [text |-> "rome", normalized_city |-> "lima"]}
\* ... and of the single caller of SeqSpec
SeqRequests ==
    [text : {"paris", "rome"}, normalized_city : {NoText, "", "lima"}]
SeqTask == "t1"

\* threshold=0.75 is the constructor's default; SeqSpec also builds the
\* cache with threshold 4/5, a similarity two of the texts have exactly.
DefaultThreshold == [num |-> 3, den2 |-> 16]
Thresholds == {DefaultThreshold, [num |-> 4, den2 |-> 25]}

VARIABLES cache, lock, waiters, clock, threshold, sets, pc, frame, ret

cachevars == <<cache, lock, waiters, clock, threshold, sets, pc, frame, ret>>

\* The callers of the cache (the semantic_cache wrapper, analyze_weather_data):
\* wrap[t] is the call task t is in, out what the step just taken handed
\* to the caller of the wrapped function.
VARIABLES wrap, out

wrapvars == <<wrap, out>>

\* Batch text classification (backend/src/recipes/batch_text_classification.py):
\* items is request.batch, istate[i] where the task of item i is, permits
\* and queue the value and the waiters of the semaphore, results[i] what
\* process_item returned for item i, response what the endpoint answered.
VARIABLES items, istate, permits, queue, results, response

batchvars == <<items, istate, permits, queue, results, response>>

\* Multi-turn chat (backend/src/recipes/multiturn_chat.py): sse_pc is where
\* generate_sse_stream stands, emitted the events it has yielded, chunks the
\* chunks the LLM stream has delivered, text_id the id it drew.
VARIABLES sse_pc, emitted, chunks, text_id

ssevars == <<sse_pc, emitted, chunks, text_id>>

\* Image captioning (backend/src/recipes/image_captioning.py): images is
\* request.batch, image_state[i] where process_image of image i is,
\* completed the lines the tasks returned, in the order they finished,
\* lines what generate_ndjson has yielded, nd_pc where it stands.
VARIABLES images, image_state, completed, lines, nd_pc

ndvars == <<images, image_state, completed, lines, nd_pc>>

\* get_weather of the weather agent under its retry decorator: api_key is
\* whether WEATHERAPI_API_KEY is set, attempt_number the attempts begun,
\* weather_pc where the call stands, responses what the weather API gave to
\* each attempt, raised what the last attempt raised, weather_out how the
\* call ended.
VARIABLES api_key, attempt_number, weather_pc, responses, raised, weather_out

weathervars == <<api_key, attempt_number, weather_pc, responses, raised, weather_out>>

\* get_team_move of the chess demo (agentic-puzzles/multiagent_chess.py):
\* chess_attempt is the number of attempts begun, chess_pc where the call
\* stands, feedback and tried_moves its locals, chess_out how it ended.
\* teams and errors are history: the feedback each team was created with,
\* and how each failed attempt failed.
VARIABLES chess_attempt, chess_pc, feedback, tried_moves, teams, errors, chess_out

chessvars == <<chess_attempt, chess_pc, feedback, tried_moves, teams, errors, chess_out>>

vars == <<cachevars, wrapvars, batchvars, ssevars, ndvars, weathervars, chessvars>>

\* ------------------------------------------------------- embedding provider
\* The embedding endpoint is deterministic: one vector per text.  The
\* vectors are non-zero and pairwise non-parallel; paris.rome and
\* paris.lima both have cosine 4/5, rome.lima has cosine 7/25.
Embed(t) ==
    CASE t = "paris" -> <<5, 0>>
      [] t = "rome"  -> <<4, 3>>
      [] t = "lima"  -> <<8, -6>>
      [] t = ""      -> <<0, 5>>

\* ------------------------------------------------------------ similarity
Dot(a, b) == a[1] * b[1] + a[2] * b[2]

\* np.dot(a, b) / (np.linalg.norm(a) * np.linalg.norm(b)), kept exact as
\* num / sqrt(den2).
_cosine_similarity(a, b) ==
    [num |-> Dot(a, b), den2 |-> Dot(a, a) * Dot(b, b)]

\* x > y for two similarities x = x.num/sqrt(x.den2), y likewise.
SimGT(x, y) ==
    LET l == x.num * x.num * y.den2
        r == y.num * y.num * x.den2
    IN  IF x.num >= 0 /\ y.num >= 0 THEN l > r
        ELSE IF x.num >= 0 THEN TRUE
        ELSE IF y.num >= 0 THEN FALSE
        ELSE l < r

Zero == [num |-> 0, den2 |-> 1]

\* --------------------------------------------------------------- the cache
\* query_text = normalized_city if normalized_city else text: None and ""
\* are both falsy.
KeyTextRaw(text, normalized_city) == text
KeyText(text, normalized_city) ==
    IF normalized_city # NoText /\ normalized_city # "" THEN normalized_city
    ELSE text

\* (now - timestamp).total_seconds() > self.ttl_seconds
ExpiredNever(timestamp, now) == FALSE
ExpiredAtTTL(timestamp, now) == now - timestamp >= TTL
Expired(timestamp, now) == now - timestamp > TTL

\* The mapping is a dict, kept here in its insertion order as a sequence
\* of entries [key, value, ts, prev, text]; prev and text are history, not
\* program state: the value the entry replaced under its key (NoValue when
\* the key was new) and the raw text argument of the set that wrote it.
Keys(c) == {c[i].key : i \in 1..Len(c)}
Index(c, key) == CHOOSE i \in 1..Len(c) : c[i].key = key

\* expired = [...]; for emb in expired: del self.cache[emb]
ExpiredKeys(c, now) == {c[i].key : i \in {j \in 1..Len(c) : Expired(c[j].ts, now)}}
SweepNothing(c, now) == c
Sweep(c, now) == SelectSeq(c, LAMBDA e : ~Expired(e.ts, now))

\* the scan of get: max_similarity = 0, best_match = None, then for every
\* entry in mapping order "if similarity > max_similarity" replace both.
NoEntry ==
    [key |-> <<0, 0>>, value |-> NoValue, ts |-> -1, prev |-> NoValue, text |-> NoText]

RECURSIVE ScanFromLast(_, _, _, _, _)
ScanFromLast(c, query_embedding, i, max_similarity, best_match) ==
    IF i > Len(c) THEN [max_similarity |-> max_similarity, best_match |-> best_match]
    ELSE LET similarity == _cosine_similarity(query_embedding, c[i].key)
         IN  IF ~SimGT(max_similarity, similarity)
             THEN ScanFromLast(c, query_embedding, i + 1, similarity, c[i])
             ELSE ScanFromLast(c, query_embedding, i + 1, max_similarity, best_match)

RECURSIVE ScanFrom(_, _, _, _, _)
ScanFrom(c, query_embedding, i, max_similarity, best_match) ==
    IF i > Len(c) THEN [max_similarity |-> max_similarity, best_match |-> best_match]
    ELSE LET similarity == _cosine_similarity(query_embedding, c[i].key)
         IN  IF SimGT(similarity, max_similarity)
             THEN ScanFrom(c, query_embedding, i + 1, similarity, c[i])
             ELSE ScanFrom(c, query_embedding, i + 1, max_similarity, best_match)

Scan(c, query_embedding) == ScanFrom(c, query_embedding, 1, Zero, NoEntry)

\* if max_similarity > self.threshold: return True, best_match
\* return False, None
IsHitAtLeast(max_similarity, thr) == ~SimGT(thr, max_similarity)
IsHitFlipped(max_similarity, thr) == SimGT(thr, max_similarity)
IsHit(max_similarity, thr) == SimGT(max_similarity, thr)

Lookup(c, query_embedding, thr) ==
    LET s == Scan(c, query_embedding)
    IN  IF IsHit(s.max_similarity, thr)
        THEN [hit |-> TRUE, value |-> s.best_match.value, ts |-> s.best_match.ts]
        ELSE [hit |-> FALSE, value |-> NoValue, ts |-> -1]

\* self.cache[embedding_tuple] = (value, datetime.now()): a key already in
\* the dict keeps its position, a new key goes last.
Entry(key, value, now, prev, text) ==
    [key |-> key, value |-> value, ts |-> now, prev |-> prev, text |-> text]
InsertEvicting(c, key, value, now, text) ==
    LET live == Sweep(c, now)
    IN  IF key \in Keys(live)
        THEN [live EXCEPT ![Index(live, key)] =
                  Entry(key, value, now, live[Index(live, key)].value, text)]
        ELSE Append(live, Entry(key, value, now, NoValue, text))
InsertKeepOld(c, key, value, now, text) ==
    IF key \in Keys(c) THEN c
    ELSE Append(c, Entry(key, value, now, NoValue, text))
Insert(c, key, value, now, text) ==
    IF key \in Keys(c)
    THEN [c EXCEPT ![Index(c, key)] =
              Entry(key, value, now, c[Index(c, key)].value, text)]
    ELSE Append(c, Entry(key, value, now, NoValue, text))

\* ---------------------------------------------------------------- the lock
\* asyncio.Lock: acquire returns at once when the lock is free and nobody
\* waits; otherwise the caller queues and is woken in FIFO order.
LockFreeAlways(l, w) == TRUE
LockFree(l, w) == l = NoTask /\ w = <<>>

\* __aexit__ of "async with self._lock" on an exception or a cancellation
ReleaseNever(l, t) == l
Release(l, t) == IF l = t THEN NoTask ELSE l

Remove(w, t) == SelectSeq(w, LAMBDA x : x # t)

\* ----------------------------------------------------------------- state
\* pc[t]: "idle" (not in a call), "waiting" (suspended in Lock.acquire),
\* "embedding" (holds the lock, suspended in the embedding request).
\* frame[t]: the arguments and locals of the call task t is in.
\* ret: what the step just taken handed to a caller, NoRet after any
\* other step.
NoFrame ==
    [op |-> "none", text |-> NoText, normalized_city |-> NoText,
     value |-> NoValue, now |-> -1, purged |-> {}]

NoRet ==
    [task |-> NoTask, outcome |-> "none", phase |-> "none", call |-> NoFrame,
     hit |-> FALSE, value |-> NoValue, ts |-> -1, at |-> -1]

\* SemanticCache(threshold, ttl_seconds): an empty mapping, a free lock.
Start(thresholds) ==
    /\ cache = <<>>
    /\ lock = NoTask
    /\ waiters = <<>>
    /\ clock = 0
    /\ threshold \in thresholds
    /\ sets = 0
    /\ pc = [t \in Tasks |-> "idle"]
    /\ frame = [t \in Tasks |-> NoFrame]
    /\ ret = NoRet

\* no wrapped call is running
NoRequest == [text |-> NoText, normalized_city |-> NoText]
NoWrap ==
    [stage |-> "none", request |-> NoRequest, hit |-> FALSE, got |-> NoValue,
     invoked |-> 0, result |-> NoValue]
NoOut ==
    [task |-> NoTask, outcome |-> "none", cause |-> "none", request |-> NoRequest,
     hit |-> FALSE, got |-> NoValue, invoked |-> 0, result |-> NoValue,
     value |-> NoValue]
WrapIdle ==
    /\ wrap = [t \in Tasks |-> NoWrap]
    /\ out = NoOut

\* no batch has been posted
NoResult ==
    [itemId |-> 0, originalText |-> "none", classification |-> "none", duration |-> -2]
BatchIdle ==
    /\ items = <<>>
    /\ istate = <<>>
    /\ permits = 0
    /\ queue = <<>>
    /\ results = <<>>
    /\ response = [status |-> "none", body |-> <<>>]

\* no chat request has been posted
SseIdle ==
    /\ sse_pc = "none"
    /\ emitted = <<>>
    /\ chunks = <<>>
    /\ text_id = "none"

\* no captioning request has been posted
NdIdle ==
    /\ images = <<>>
    /\ image_state = <<>>
    /\ completed = <<>>
    /\ lines = <<>>
    /\ nd_pc = "none"

\* get_weather has not been called
NoException == [class |-> "none", status |-> 0]
WeatherIdle ==
    /\ api_key = FALSE
    /\ attempt_number = 0
    /\ weather_pc = "none"
    /\ responses = <<>>
    /\ raised = NoException
    /\ weather_out = [kind |-> "none", exception |-> NoException]

\* get_team_move has not been called
NoMove == "none"
NoFeedback == [kind |-> "", move |-> NoMove, attempt |-> 0]
ChessIdle ==
    /\ chess_attempt = 0
    /\ chess_pc = "none"
    /\ feedback = NoFeedback
    /\ tried_moves = {}
    /\ teams = <<>>
    /\ errors = <<>>
    /\ chess_out = [kind |-> "none", move |-> NoMove]

\* no request to any recipe of the cookbook backend
RecipesIdle == BatchIdle /\ SseIdle /\ NdIdle /\ WeatherIdle /\ ChessIdle

\* the variables a specification of the cache alone leaves as they are
NotCache == <<wrapvars, batchvars, ssevars, ndvars, weathervars, chessvars>>

Init == Start({DefaultThreshold}) /\ WrapIdle /\ RecipesIdle
SeqInit == Start(Thresholds) /\ WrapIdle /\ RecipesIdle

\* Task t has the lock and runs up to the awaited embedding request.  A
\* get takes now = datetime.now() and sweeps the expired entries first.
Enter(t, f) ==
    /\ lock' = t
    /\ pc' = [pc EXCEPT ![t] = "embedding"]
    /\ IF f.op = "get"
       THEN /\ cache' = Sweep(cache, clock)
            /\ frame' = [frame EXCEPT ![t] =
                   [f EXCEPT !.now = clock, !.purged = ExpiredKeys(cache, clock)]]
       ELSE /\ cache' = cache
            /\ frame' = [frame EXCEPT ![t] = f]

\* "async with self._lock" of a new call
Begin(t, f) ==
    /\ pc[t] = "idle"
    /\ ret' = NoRet
    /\ IF LockFree(lock, waiters)
       THEN Enter(t, f) /\ UNCHANGED waiters
       ELSE /\ waiters' = Append(waiters, t)
            /\ pc' = [pc EXCEPT ![t] = "waiting"]
            /\ frame' = [frame EXCEPT ![t] = f]
            /\ UNCHANGED <<cache, lock>>

CallGet(t, text, normalized_city) ==
    /\ Begin(t, [NoFrame EXCEPT !.op = "get", !.text = text,
                                !.normalized_city = normalized_city])
    /\ UNCHANGED <<clock, threshold, sets>>

CallSet(t, text, value, normalized_city) ==
    /\ sets < MaxSets
    /\ sets' = sets + 1
    /\ Begin(t, [NoFrame EXCEPT !.op = "set", !.text = text, !.value = value,
                                !.normalized_city = normalized_city])
    /\ UNCHANGED <<clock, threshold>>

\* release() woke the first waiter; it takes the lock when it runs.
Wakeup(t) ==
    /\ pc[t] = "waiting"
    /\ lock = NoTask
    /\ waiters # <<>> /\ Head(waiters) = t
    /\ waiters' = Tail(waiters)
    /\ Enter(t, frame[t])
    /\ ret' = NoRet
    /\ UNCHANGED <<clock, threshold, sets>>

\* The call of task t is over: its frame is gone, the caller has `r`.
Leave(t, r) ==
    /\ pc' = [pc EXCEPT ![t] = "idle"]
    /\ frame' = [frame EXCEPT ![t] = NoFrame]
    /\ ret' = [r EXCEPT !.task = t, !.call = frame[t], !.at = clock]

\* The embedding request answers: get scans and returns, set inserts; the
\* lock is released on leaving the "async with" block.
EmbeddingReturns(t) ==
    /\ pc[t] = "embedding"
    /\ LET f == frame[t]
           e == Embed(KeyText(f.text, f.normalized_city))
       IN  IF f.op = "get"
           THEN LET r == Lookup(cache, e, threshold)
                IN  /\ Leave(t, [NoRet EXCEPT !.outcome = "returned", !.hit = r.hit,
                                              !.value = r.value, !.ts = r.ts])
                    /\ cache' = cache
           ELSE /\ cache' = Insert(cache, e, f.value, clock, f.text)
                /\ Leave(t, [NoRet EXCEPT !.outcome = "returned"])
    /\ lock' = Release(lock, t)
    /\ UNCHANGED <<waiters, clock, threshold, sets>>

\* The embedding request raises: nothing catches it in get or set.
EmbeddingRaises(t) ==
    /\ pc[t] = "embedding"
    /\ Leave(t, [NoRet EXCEPT !.outcome = "raised", !.phase = "embedding"])
    /\ lock' = Release(lock, t)
    /\ UNCHANGED <<cache, waiters, clock, threshold, sets>>

\* The task is cancelled at one of its two suspension points.
Cancel(t) ==
    /\ pc[t] \in {"waiting", "embedding"}
    /\ Leave(t, [NoRet EXCEPT !.outcome = "cancelled",
                              !.phase = IF pc[t] = "waiting" THEN "lock" ELSE "embedding"])
    /\ waiters' = Remove(waiters, t)
    /\ lock' = Release(lock, t)
    /\ UNCHANGED <<cache, clock, threshold, sets>>

Tick ==
    /\ clock < MaxTime
    /\ clock' = clock + 1
    /\ ret' = NoRet
    /\ UNCHANGED <<cache, lock, waiters, threshold, sets, pc, frame>>

\* Two tasks of one event loop call get and set on the same instance.
Next ==
    \/ \E t \in Tasks, r \in Requests :
           CallGet(t, r.text, r.normalized_city) /\ UNCHANGED NotCache
    \/ \E t \in Tasks, r \in Requests, v \in Values :
           CallSet(t, r.text, v, r.normalized_city) /\ UNCHANGED NotCache
    \/ \E t \in Tasks : Wakeup(t) /\ UNCHANGED NotCache
    \/ \E t \in Tasks : EmbeddingReturns(t) /\ UNCHANGED NotCache
    \/ \E t \in Tasks : EmbeddingRaises(t) /\ UNCHANGED NotCache
    \/ \E t \in Tasks : Cancel(t) /\ UNCHANGED NotCache
    \/ Tick /\ UNCHANGED NotCache

Spec == Init /\ [][Next]_vars

\* One task calls get and set one after the other, with every kind of
\* argument and under both thresholds.
SeqNext ==
    \/ \E r \in SeqRequests :
           CallGet(SeqTask, r.text, r.normalized_city) /\ UNCHANGED NotCache
    \/ \E r \in SeqRequests, v \in Values :
           CallSet(SeqTask, r.text, v, r.normalized_city) /\ UNCHANGED NotCache
    \/ EmbeddingReturns(SeqTask) /\ UNCHANGED NotCache
    \/ EmbeddingRaises(SeqTask) /\ UNCHANGED NotCache
    \/ Cancel(SeqTask) /\ UNCHANGED NotCache
    \/ Tick /\ UNCHANGED NotCache

SeqSpec == SeqInit /\ [][SeqNext]_vars

\* ------------------------------------------------- the callers of the cache
\* semantic_cache's wrapper and analyze_weather_data run the same steps:
\* await cache.get; on a hit return the value; otherwise await the expensive
\* function, await cache.set of its result, return the result.  Neither
\* catches anything.  Each awaits inside get and set as any caller does, and
\* once more in the expensive function, where it holds no lock.
\* wrap[t].stage is "none", "get", "func" or "set".

\* if hit: return value
WrapBranchAlwaysCompute(hit) == "func"
WrapBranch(hit) == IF hit THEN "return" ELSE "func"

\* the wrapped call of task t is over
WrapDone(t, o) ==
    /\ wrap' = [wrap EXCEPT ![t] = NoWrap]
    /\ out' = [o EXCEPT !.task = t, !.request = wrap[t].request,
                        !.invoked = wrap[t].invoked]

\* hit, value = await cache.get(request_message, normalized_city)
WrapperCall(t, r) ==
    /\ wrap[t].stage = "none"
    /\ CallGet(t, r.text, r.normalized_city)
    /\ wrap' = [wrap EXCEPT ![t] = [NoWrap EXCEPT !.stage = "get", !.request = r]]
    /\ out' = NoOut

\* if not request_message: raise ValueError (the wrapper only)
WrapperRejects(t) ==
    /\ wrap[t].stage = "none"
    /\ WrapDone(t, [NoOut EXCEPT !.outcome = "raised", !.cause = "argument"])
    /\ ret' = NoRet
    /\ UNCHANGED <<cache, lock, waiters, clock, threshold, sets, pc, frame>>

\* get returns: the wrapper returns the cached value or calls the function
WrapperGetReturns(t) ==
    /\ wrap[t].stage = "get"
    /\ frame[t].op = "get"
    /\ EmbeddingReturns(t)
    /\ IF WrapBranch(ret'.hit) = "return"
       THEN WrapDone(t, [NoOut EXCEPT !.outcome = "returned", !.hit = ret'.hit,
                                      !.got = ret'.value, !.value = ret'.value])
       ELSE /\ wrap' = [wrap EXCEPT ![t].stage = "func", ![t].hit = ret'.hit,
                                     ![t].got = ret'.value, ![t].invoked = @ + 1]
            /\ out' = NoOut

\* result = await func(...); await cache.set(request_message, result, ...)
FuncReturns(t, result) ==
    /\ wrap[t].stage = "func"
    /\ CallSet(t, wrap[t].request.text, result, wrap[t].request.normalized_city)
    /\ wrap' = [wrap EXCEPT ![t].stage = "set", ![t].result = result]
    /\ out' = NoOut

FuncRaises(t) ==
    /\ wrap[t].stage = "func"
    /\ WrapDone(t, [NoOut EXCEPT !.outcome = "raised", !.cause = "func"])
    /\ ret' = NoRet
    /\ UNCHANGED <<cache, lock, waiters, clock, threshold, sets, pc, frame>>

\* set returns: return result
WrapperSetReturns(t) ==
    /\ wrap[t].stage = "set"
    /\ frame[t].op = "set"
    /\ EmbeddingReturns(t)
    /\ WrapDone(t, [NoOut EXCEPT !.outcome = "returned", !.hit = wrap[t].hit,
                                  !.got = wrap[t].got, !.result = wrap[t].result,
                                  !.value = wrap[t].result])

\* the embedding request of the get or of the set raises: the exception
\* passes through get/set and through the caller
WrapperEmbeddingRaises(t) ==
    /\ wrap[t].stage \in {"get", "set"}
    /\ EmbeddingRaises(t)
    /\ WrapDone(t, [NoOut EXCEPT !.outcome = "raised", !.cause = wrap[t].stage,
                                  !.result = wrap[t].result])

WrapperWakeup(t) ==
    /\ Wakeup(t)
    /\ out' = NoOut
    /\ UNCHANGED wrap

\* the request's task is cancelled wherever it is suspended
WrapperCancel(t) ==
    /\ wrap[t].stage # "none"
    /\ IF wrap[t].stage = "func"
       THEN /\ ret' = NoRet
            /\ UNCHANGED <<cache, lock, waiters, clock, threshold, sets, pc, frame>>
       ELSE Cancel(t)
    /\ WrapDone(t, [NoOut EXCEPT !.outcome = "cancelled", !.cause = wrap[t].stage])

WrapperTick ==
    /\ Tick
    /\ out' = NoOut
    /\ UNCHANGED wrap

\* the variables a specification of the wrapped calls leaves as they are
NotWrap == <<batchvars, ssevars, ndvars, weathervars, chessvars>>

\* Two requests at once go through the wrapper of one cache; the results of
\* the expensive function are drawn from Values.
WrapNext ==
    \/ \E t \in Tasks, r \in Requests : WrapperCall(t, r) /\ UNCHANGED NotWrap
    \/ \E t \in Tasks : WrapperRejects(t) /\ UNCHANGED NotWrap
    \/ \E t \in Tasks : WrapperGetReturns(t) /\ UNCHANGED NotWrap
    \/ \E t \in Tasks, v \in Values : FuncReturns(t, v) /\ UNCHANGED NotWrap
    \/ \E t \in Tasks : FuncRaises(t) /\ UNCHANGED NotWrap
    \/ \E t \in Tasks : WrapperSetReturns(t) /\ UNCHANGED NotWrap
    \/ \E t \in Tasks : WrapperEmbeddingRaises(t) /\ UNCHANGED NotWrap
    \/ \E t \in Tasks : WrapperWakeup(t) /\ UNCHANGED NotWrap
    \/ \E t \in Tasks : WrapperCancel(t) /\ UNCHANGED NotWrap
    \/ WrapperTick /\ UNCHANGED NotWrap

WrapSpec == Init /\ [][WrapNext]_vars

\* ------------------------------------------------ batch text classification
\* semaphore = Semaphore(10)
Limit == 10

\* An item has a text under request.textField ("valid"), has none or a
\* non-string one ("notext"), or has a text on which the LLM request raises
\* ("failing").  The batches posted: up to MaxBatch items, of any kind in
\* the last Varied places and valid before them.
Kinds == {"valid", "notext", "failing"}
Batches ==
    UNION {{b \in [1..n -> [itemId : {0}, kind : Kinds]] :
                \A i \in 1..n : i <= n - Varied => b[i].kind = "valid"}
           : n \in 0..MaxBatch}
\* every item carries its own itemId
WithIds(b) == [i \in 1..Len(b) |-> [b[i] EXCEPT !.itemId = i]]

\* process_item's two results
SuccessResult(item) ==
    [itemId |-> item.itemId, originalText |-> "text", classification |-> "label",
     duration |-> 0]
ErrorResultDropped(item, error_message) == NoResult
ErrorResult(item, error_message) ==
    [itemId |-> item.itemId, originalText |-> "<error>",
     classification |-> error_message, duration |-> -1]

\* asyncio.Semaphore.locked(): no permit left, or somebody already waits
LockedNever(value, ws) == FALSE
Locked(value, ws) == value = 0 \/ ws # <<>>

\* POST /batch-text-classification with a batch: the endpoint builds the
\* semaphore and one coroutine per item, and awaits their gather.
BatchPosted ==
    /\ items \in {WithIds(b) : b \in Batches}
    /\ istate = [i \in 1..Len(items) |-> "new"]
    /\ permits = Limit
    /\ queue = <<>>
    /\ results = [i \in 1..Len(items) |-> NoResult]
    /\ response = [status |-> "none", body |-> <<>>]

InFlight == {i \in 1..Len(items) : istate[i] = "inflight"}
Pending == {i \in 1..Len(items) : istate[i] # "done"}

\* item i is done and leaves "async with semaphore": release() hands the
\* permit straight to the first waiter, if there is one
ReleaseSlot(i) ==
    IF queue # <<>>
    THEN /\ istate' = [istate EXCEPT ![i] = "done", ![Head(queue)] = "woken"]
         /\ queue' = Tail(queue)
         /\ permits' = permits
    ELSE /\ istate' = [istate EXCEPT ![i] = "done"]
         /\ permits' = permits + 1
         /\ queue' = queue

\* process_item up to its first suspension, the slot being held: an item
\* without text fails at once, is answered by an error result and gives
\* the slot back; any other item sends its LLM request and awaits it.
RunItem(i, value, ws) ==
    IF items[i].kind = "notext"
    THEN /\ results' = [results EXCEPT ![i] = ErrorResult(items[i], "no text")]
         /\ istate' = [istate EXCEPT ![i] = "done"]
         /\ permits' = value + 1
         /\ queue' = ws
    ELSE /\ istate' = [istate EXCEPT ![i] = "inflight"]
         /\ permits' = value
         /\ queue' = ws
         /\ UNCHANGED results

\* the task of item i runs for the first time (tasks start in the order of
\* the batch): "async with semaphore" takes a permit or queues
StartItem(i) ==
    /\ response.status = "none"
    /\ istate[i] = "new"
    /\ \A j \in 1..(i - 1) : istate[j] # "new"
    /\ IF Locked(permits, queue)
       THEN /\ queue' = Append(queue, i)
            /\ istate' = [istate EXCEPT ![i] = "queued"]
            /\ UNCHANGED <<permits, results>>
       ELSE RunItem(i, permits - 1, queue)
    /\ UNCHANGED <<items, response>>

\* a waiter that was handed a permit resumes
ResumeItem(i) ==
    /\ response.status = "none"
    /\ istate[i] = "woken"
    /\ IF items[i].kind = "notext"
       THEN /\ results' = [results EXCEPT ![i] = ErrorResult(items[i], "no text")]
            /\ ReleaseSlot(i)
       ELSE /\ istate' = [istate EXCEPT ![i] = "inflight"]
            /\ UNCHANGED <<permits, queue, results>>
    /\ UNCHANGED <<items, response>>

\* the LLM request of item i is over: a result either way, slot released
Finish(i, result) ==
    /\ results' = [results EXCEPT ![i] = result]
    /\ ReleaseSlot(i)
    /\ UNCHANGED <<items, response>>

LLMReturns(i) ==
    /\ response.status = "none"
    /\ istate[i] = "inflight"
    /\ items[i].kind = "valid"
    /\ Finish(i, SuccessResult(items[i]))

\* except Exception as error: return ClassificationResult(..., "<error>", ...)
LLMRaises(i) ==
    /\ response.status = "none"
    /\ istate[i] = "inflight"
    /\ items[i].kind = "failing"
    /\ Finish(i, ErrorResult(items[i], "llm error"))

\* gather has every result, in the order of its arguments: return results
GatherReturns ==
    /\ response.status = "none"
    /\ Pending = {}
    /\ response' = [status |-> "results", body |-> results]
    /\ UNCHANGED <<items, istate, permits, queue, results>>

\* wait_for's 300 seconds are over: the gather and its tasks are cancelled
\* (every held slot is given back) and the endpoint answers 504
BatchTimeout ==
    /\ response.status = "none"
    /\ Pending # {}
    /\ response' = [status |-> "504", body |-> <<>>]
    /\ istate' = [i \in 1..Len(items) |->
                      IF istate[i] = "done" THEN "done" ELSE "cancelled"]
    /\ queue' = <<>>
    /\ permits' = Limit
    /\ UNCHANGED <<items, results>>

\* the variables a specification of the batch endpoint leaves as they are
NotBatch == <<cachevars, wrapvars, ssevars, ndvars, weathervars, chessvars>>

BatchNext ==
    \/ \E i \in 1..Len(items) : StartItem(i) /\ UNCHANGED NotBatch
    \/ \E i \in 1..Len(items) : ResumeItem(i) /\ UNCHANGED NotBatch
    \/ \E i \in 1..Len(items) : LLMReturns(i) /\ UNCHANGED NotBatch
    \/ \E i \in 1..Len(items) : LLMRaises(i) /\ UNCHANGED NotBatch
    \/ GatherReturns /\ UNCHANGED NotBatch
    \/ BatchTimeout /\ UNCHANGED NotBatch

BatchInit ==
    Start({DefaultThreshold}) /\ WrapIdle /\ BatchPosted /\ SseIdle /\ NdIdle
        /\ ChessIdle
        /\ WeatherIdle

BatchSpec == BatchInit /\ [][BatchNext]_vars

\* --------------------------------------------------------- multi-turn chat
\* generate_sse_stream is an async generator: one action is one run of it
\* from a suspension (a yield, the awaited request, the awaited next chunk)
\* to the next.  sse_pc names the suspension: "new" (not started), "start",
\* "text-start", "request" (the LLM request awaited), "streaming" (in the
\* async for, at the chunk awaited or at the delta yielded), "text-end", "finish", "done", "error"; and the ways
\* it is over: "ended" (returned after [DONE]), "failed" (returned after the
\* error event), "aborted" (closed by a consumer that went away).
MessageId == "msg-1"
TextIds == {"text-1", "text-2"}

\* delta.content of a chunk; "" stands for a chunk without choices or
\* without content
Contents == {"a", "b", ""}

\* if chunk.choices and chunk.choices[0].delta.content:
HasContentAlways(content) == TRUE
HasContent(content) == content # ""

Event(type) == [type |-> type, id |-> "none", delta |-> ""]
StartEvent == [Event("start") EXCEPT !.id = MessageId]
TextEvent(type, id) == [Event(type) EXCEPT !.id = id]
DeltaEvent(id, delta) == [Event("text-delta") EXCEPT !.id = id, !.delta = delta]

Yield(event, at) ==
    /\ emitted' = Append(emitted, event)
    /\ sse_pc' = at

\* POST /multiturn-chat has answered with the StreamingResponse
SsePosted ==
    /\ sse_pc = "new"
    /\ emitted = <<>>
    /\ chunks = <<>>
    /\ text_id = "none"

\* client, openai_messages, the two ids, then the start event
SseBegin(id) ==
    /\ sse_pc = "new"
    /\ text_id' = id
    /\ Yield(StartEvent, "start")
    /\ UNCHANGED chunks

\* the client cannot be built or a message cannot be converted
SseSetupRaises ==
    /\ sse_pc = "new"
    /\ Yield(Event("error"), "error")
    /\ UNCHANGED <<chunks, text_id>>

SseTextStart ==
    /\ sse_pc = "start"
    /\ Yield(TextEvent("text-start", text_id), "text-start")
    /\ UNCHANGED <<chunks, text_id>>

\* the consumer pulls again: the request is sent and awaited
SseRequest ==
    /\ sse_pc = "text-start"
    /\ sse_pc' = "request"
    /\ UNCHANGED <<emitted, chunks, text_id>>

\* stream = await client.chat.completions.create(..., stream=True)
SseRequestReturns ==
    /\ sse_pc = "request"
    /\ sse_pc' = "streaming"
    /\ UNCHANGED <<emitted, chunks, text_id>>

\* async for chunk in stream: a chunk with content is yielded as a delta
SseChunk(content) ==
    /\ sse_pc = "streaming"
    /\ Len(chunks) < MaxChunks
    /\ chunks' = Append(chunks, content)
    /\ IF HasContent(content)
       THEN Yield(DeltaEvent(text_id, content), "streaming")
       ELSE UNCHANGED <<emitted, sse_pc>>
    /\ UNCHANGED text_id

\* the stream is exhausted
SseStreamEnds ==
    /\ sse_pc = "streaming"
    /\ Yield(TextEvent("text-end", text_id), "text-end")
    /\ UNCHANGED <<chunks, text_id>>

SseFinish ==
    /\ sse_pc = "text-end"
    /\ Yield(Event("finish"), "finish")
    /\ UNCHANGED <<chunks, text_id>>

SseDone ==
    /\ sse_pc = "finish"
    /\ Yield(Event("[DONE]"), "done")
    /\ UNCHANGED <<chunks, text_id>>

\* the request or the next chunk raises: except Exception yields the error
SseRaisesSilently ==
    /\ sse_pc \in {"request", "streaming"}
    /\ sse_pc' = "error"
    /\ UNCHANGED <<emitted, chunks, text_id>>
SseRaises ==
    /\ sse_pc \in {"request", "streaming"}
    /\ Yield(Event("error"), "error")
    /\ UNCHANGED <<chunks, text_id>>

\* resumed after its last yield the generator returns
SseReturns ==
    /\ sse_pc \in {"done", "error"}
    /\ sse_pc' = (IF sse_pc = "done" THEN "ended" ELSE "failed")
    /\ UNCHANGED <<emitted, chunks, text_id>>

\* the consumer is gone: the generator is closed where it is suspended
SseAborted ==
    /\ sse_pc \in {"start", "text-start", "request", "streaming", "text-end",
                    "finish", "done", "error"}
    /\ sse_pc' = "aborted"
    /\ UNCHANGED <<emitted, chunks, text_id>>

\* the variables a specification of the chat stream leaves as they are
NotSse == <<cachevars, wrapvars, batchvars, ndvars, weathervars, chessvars>>

SseNext ==
    \/ \E id \in TextIds : SseBegin(id) /\ UNCHANGED NotSse
    \/ SseSetupRaises /\ UNCHANGED NotSse
    \/ SseTextStart /\ UNCHANGED NotSse
    \/ SseRequest /\ UNCHANGED NotSse
    \/ SseRequestReturns /\ UNCHANGED NotSse
    \/ \E c \in Contents : SseChunk(c) /\ UNCHANGED NotSse
    \/ SseStreamEnds /\ UNCHANGED NotSse
    \/ SseFinish /\ UNCHANGED NotSse
    \/ SseDone /\ UNCHANGED NotSse
    \/ SseRaises /\ UNCHANGED NotSse
    \/ SseReturns /\ UNCHANGED NotSse
    \/ SseAborted /\ UNCHANGED NotSse

SseInit ==
    Start({DefaultThreshold}) /\ WrapIdle /\ BatchIdle /\ SsePosted /\ NdIdle
        /\ ChessIdle
        /\ WeatherIdle

SseSpec == SseInit /\ [][SseNext]_vars

\* -------------------------------------------------------- image captioning
\* The LLM request of an image answers with a caption ("ok") or raises,
\* when it is sent or while its stream is read ("failing").
ImageKinds == {"ok", "failing"}
ImageBatches ==
    UNION {[1..n -> [imageId : {0}, kind : ImageKinds]] : n \in 0..MaxImages}
\* every image carries its own imageId
WithImageIds(b) == [i \in 1..Len(b) |-> [b[i] EXCEPT !.imageId = i]]

\* the NDJSON lines, by the keys of their objects
SuccessLine(item) ==
    [imageId |-> item.imageId, keys |-> {"imageId", "text", "ttft", "duration"}]
ErrorLineWithoutId(item) == [imageId |-> 0, keys |-> {"error"}]
ErrorLine(item) == [imageId |-> item.imageId, keys |-> {"imageId", "error"}]
BatchErrorLine == [imageId |-> 0, keys |-> {"error"}]

\* POST /image-captioning has answered with the StreamingResponse
NdPosted ==
    /\ images \in {WithImageIds(b) : b \in ImageBatches}
    /\ image_state = [i \in 1..Len(images) |-> "new"]
    /\ completed = <<>>
    /\ lines = <<>>
    /\ nd_pc = "new"

\* generate_ndjson builds the client and one process_image per image and
\* awaits the first to finish; every task sends its request
NdBegin ==
    /\ nd_pc = "new"
    /\ nd_pc' = "running"
    /\ image_state' = [i \in 1..Len(images) |-> "inflight"]
    /\ UNCHANGED <<images, completed, lines>>

\* the client cannot be built: the batch-level except yields one line
NdSetupRaises ==
    /\ nd_pc = "new"
    /\ nd_pc' = "error"
    /\ lines' = Append(lines, BatchErrorLine)
    /\ UNCHANGED <<images, image_state, completed>>

\* process_image of image i returns its line
ImageDone(i, line) ==
    /\ nd_pc = "running"
    /\ image_state[i] = "inflight"
    /\ image_state' = [image_state EXCEPT ![i] = "finished"]
    /\ completed' = Append(completed, line)
    /\ UNCHANGED <<images, lines, nd_pc>>

ImageReturns(i) ==
    /\ images[i].kind = "ok"
    /\ ImageDone(i, SuccessLine(images[i]))

\* except Exception as error: return json.dumps({imageId, error})
ImageRaises(i) ==
    /\ images[i].kind = "failing"
    /\ ImageDone(i, ErrorLine(images[i]))

\* for coro in asyncio.as_completed(tasks): result = await coro; yield result
NdYield ==
    /\ nd_pc = "running"
    /\ Len(lines) < Len(completed)
    /\ lines' = Append(lines, completed[Len(lines) + 1])
    /\ UNCHANGED <<images, image_state, completed, nd_pc>>

\* the loop is exhausted, or the generator is resumed after the batch-level
\* error line: it returns
NdReturns ==
    /\ \/ nd_pc = "running" /\ Len(lines) = Len(images)
       \/ nd_pc = "error"
    /\ nd_pc' = (IF nd_pc = "running" THEN "ended" ELSE "failed")
    /\ UNCHANGED <<images, image_state, completed, lines>>

\* the consumer is gone: the generator is closed where it is suspended
NdAborted ==
    /\ nd_pc \in {"running", "error"}
    /\ nd_pc' = "aborted"
    /\ UNCHANGED <<images, image_state, completed, lines>>

\* the variables a specification of the captioning stream leaves as they are
NotNd == <<cachevars, wrapvars, batchvars, ssevars, weathervars, chessvars>>

NdNext ==
    \/ NdBegin /\ UNCHANGED NotNd
    \/ NdSetupRaises /\ UNCHANGED NotNd
    \/ \E i \in 1..Len(images) : ImageReturns(i) /\ UNCHANGED NotNd
    \/ \E i \in 1..Len(images) : ImageRaises(i) /\ UNCHANGED NotNd
    \/ NdYield /\ UNCHANGED NotNd
    \/ NdReturns /\ UNCHANGED NotNd
    \/ NdAborted /\ UNCHANGED NotNd

NdInit ==
    Start({DefaultThreshold}) /\ WrapIdle /\ BatchIdle /\ SseIdle /\ NdPosted
        /\ ChessIdle
        /\ WeatherIdle

NdSpec == NdInit /\ [][NdNext]_vars

\* ------------------------------------------------------------- get_weather
\* stop=stop_after_attempt(3)
MaxAttempts == 3

\* What one attempt meets at "await client.get(url)" and after: a good
\* answer, an answer with an error status (raise_for_status raises
\* HTTPStatusError), a read timeout, a failed connection, or an answer
\* whose JSON lacks a field (KeyError).
Statuses == {404, 429, 500, 503}
Responses ==
    {[class |-> "ok", status |-> 200]}
        \cup [class : {"HTTPStatusError"}, status : Statuses]
        \cup [class : {"ReadTimeout", "ConnectError", "KeyError"}, status : {0}]

HTTPException(status_code) == [class |-> "HTTPException", status |-> status_code]

\* the except clauses of get_weather: what leaves the function when the
\* body of its try raised e
HandledNothing(e) == e
Handled(e) ==
    IF e.class \in {"HTTPStatusError", "ReadTimeout"}
    THEN IF e.class = "HTTPStatusError" /\ e.status = 404
         THEN HTTPException(404)
         ELSE e
    ELSE HTTPException(500)

\* retry_if_exception_type((httpx.HTTPError, httpx.RequestError,
\* httpx.ReadTimeout)): HTTPStatusError, ReadTimeout and ConnectError are
\* httpx.HTTPError; fastapi's HTTPException and KeyError are not.
RetryIf(e) == e.class \in {"HTTPStatusError", "ReadTimeout", "ConnectError"}

\* get_weather(city, ...) is called
WeatherPosted ==
    /\ api_key \in BOOLEAN
    /\ attempt_number = 0
    /\ weather_pc = "new"
    /\ responses = <<>>
    /\ raised = NoException
    /\ weather_out = [kind |-> "none", exception |-> NoException]

\* the call is over: a result, or the exception its caller gets
WeatherEnds(kind, e) ==
    /\ weather_pc' = "done"
    /\ weather_out' = [kind |-> kind, exception |-> e]

\* the retry controller after an attempt raised e: raise it as it is when
\* it is not of a retried type, give up with RetryError after the third
\* attempt, sleep before the next one otherwise
AfterRaise(e) ==
    /\ raised' = e
    /\ IF ~RetryIf(e) THEN WeatherEnds("raised", e)
       ELSE IF attempt_number' >= MaxAttempts
            THEN WeatherEnds("raised", [class |-> "RetryError", status |-> 0])
            ELSE weather_pc' = "sleeping" /\ UNCHANGED weather_out

\* an attempt begins: without the API key it raises HTTPException(500) at
\* once, with it the request is sent and awaited
Attempt ==
    /\ weather_pc \in {"new", "sleeping"}
    /\ attempt_number' = attempt_number + 1
    /\ IF ~api_key
       THEN AfterRaise(HTTPException(500))
       ELSE /\ weather_pc' = "requesting"
            /\ UNCHANGED <<raised, weather_out>>
    /\ UNCHANGED <<api_key, responses>>

\* the awaited request is over
Respond(r) ==
    /\ weather_pc = "requesting"
    /\ responses' = Append(responses, r)
    /\ UNCHANGED <<api_key, attempt_number>>
    /\ IF r.class = "ok"
       THEN WeatherEnds("returned", NoException) /\ UNCHANGED raised
       ELSE AfterRaise(Handled(r))

\* the variables a specification of get_weather leaves as they are
NotWeather == <<cachevars, wrapvars, batchvars, ssevars, ndvars, chessvars>>

WeatherNext ==
    \/ Attempt /\ UNCHANGED NotWeather
    \/ \E r \in Responses : Respond(r) /\ UNCHANGED NotWeather

WeatherInit ==
    Start({DefaultThreshold}) /\ WrapIdle /\ BatchIdle /\ SseIdle /\ NdIdle
        /\ ChessIdle
        /\ WeatherPosted

WeatherSpec == WeatherInit /\ [][WeatherNext]_vars

\* ----------------------------------------------------------- get_team_move
\* for attempt in range(3)
ChessAttempts == 3

\* legal_moves of the position, and the moves the team may come up with
LegalMoves == {"e7e5", "g8f6"}
Moves == LegalMoves \cup {"e7e4", "a1a1"}

\* if move in legal_moves
IsLegalAlways(move) == TRUE
IsLegal(move) == move \in LegalMoves

\* get_team_move(board, team, console) is called: feedback = "",
\* tried_moves = set(), and the first attempt creates its team and awaits
\* the messages of its stream
ChessPosted ==
    /\ chess_attempt = 1
    /\ chess_pc = "thinking"
    /\ feedback = NoFeedback
    /\ tried_moves = {}
    /\ teams = <<NoFeedback>>
    /\ errors = <<>>
    /\ chess_out = [kind |-> "none", move |-> NoMove]

\* the attempt is over without a move, by the error `kind`, and leaves the
\* feedback fb: after the third attempt the call raises ValueError,
\* otherwise the next attempt creates a new team with the feedback
AttemptFails(kind, move, fb) ==
    /\ errors' = Append(errors, [kind |-> kind, move |-> move])
    /\ feedback' = fb
    /\ IF chess_attempt >= ChessAttempts
       THEN /\ chess_pc' = "done"
            /\ chess_out' = [kind |-> "ValueError", move |-> NoMove]
            /\ UNCHANGED <<chess_attempt, teams>>
       ELSE /\ chess_attempt' = chess_attempt + 1
            /\ teams' = Append(teams, fb)
            /\ UNCHANGED <<chess_pc, chess_out>>

\* a message with a <move> tag and APPROVE from which `move` is extracted
ApprovedMove(move) ==
    /\ chess_pc = "thinking"
    /\ IF move \in tried_moves
       THEN /\ AttemptFails("tried", move,
                            [kind |-> "tried", move |-> move, attempt |-> chess_attempt])
            /\ UNCHANGED tried_moves
       ELSE /\ tried_moves' = tried_moves \cup {move}
            /\ IF IsLegal(move)
               THEN /\ chess_pc' = "done"
                    /\ chess_out' = [kind |-> "returned", move |-> move]
                    /\ UNCHANGED <<chess_attempt, feedback, teams, errors>>
               ELSE AttemptFails("illegal", move,
                                 [kind |-> "illegal", move |-> move,
                                  attempt |-> chess_attempt])

\* a message with the tag and APPROVE from which extract_move gets nothing
MalformedMove ==
    /\ chess_pc = "thinking"
    /\ AttemptFails("malformed", NoMove, feedback)
    /\ UNCHANGED tried_moves

\* the stream of the team raises (an LLM request fails)
TeamRaises ==
    /\ chess_pc = "thinking"
    /\ AttemptFails("stream", NoMove, feedback)
    /\ UNCHANGED tried_moves

\* the stream ends and no message carried an approved move
TeamEndsWithoutMove ==
    /\ chess_pc = "thinking"
    /\ AttemptFails("nomove", NoMove, feedback)
    /\ UNCHANGED tried_moves

\* the variables a specification of get_team_move leaves as they are
NotChess == <<cachevars, wrapvars, batchvars, ssevars, ndvars, weathervars>>

ChessNext ==
    \/ \E move \in Moves : ApprovedMove(move) /\ UNCHANGED NotChess
    \/ MalformedMove /\ UNCHANGED NotChess
    \/ TeamRaises /\ UNCHANGED NotChess
    \/ TeamEndsWithoutMove /\ UNCHANGED NotChess

ChessInit ==
    Start({DefaultThreshold}) /\ WrapIdle /\ BatchIdle /\ SseIdle /\ NdIdle
        /\ WeatherIdle /\ ChessPosted

ChessSpec == ChessInit /\ [][ChessNext]_vars

\* ------------------------------------------------------------ properties
\* What the step just taken returned: a get or a set that ran to its end.
GetReturned == ret.outcome = "returned" /\ ret.call.op = "get"
SetReturned == ret.outcome = "returned" /\ ret.call.op = "set"
\* the key the finished call embedded
RetKey == Embed(KeyText(ret.call.text, ret.call.normalized_city))
Positions == 1..Len(cache)
SimTo(i) == _cosine_similarity(RetKey, cache[i].key)

\* C1: TTL expiry.  An entry whose age at the start of a get's sweep
\* (the get's now minus the entry's timestamp) exceeds ttl_seconds is not
\* the entry a get returns as a hit: every hit comes from an entry whose age
\* at that get's sweep was at most ttl_seconds.  The clock never goes back,
\* so an entry too old for one get is too old for every later get.
TTLExpiry == (GetReturned /\ ret.hit) => ret.call.now - ret.ts <= TTL

\* a get missed although its sweep met an entry under the very key it asked
\* for (similarity 1.0), which was older than ttl_seconds
TTLExpiryWitness ==
    /\ GetReturned /\ ~ret.hit
    /\ RetKey \in ret.call.purged

\* C2: every entry returned as a hit has age <= ttl_seconds at the moment
\* get returns, however long the embedding request took.
FreshAtReturn == (GetReturned /\ ret.hit) => ret.at - ret.ts <= TTL

\* C3: threshold boundary.  get returns (true, value of an entry of maximum
\* similarity) exactly when some live entry's cosine similarity to the query
\* is strictly greater than the threshold; otherwise, an equal similarity
\* and an empty mapping included, it returns (false, None).
ThresholdBoundary ==
    GetReturned =>
        /\ ret.hit <=> \E i \in Positions : SimGT(SimTo(i), threshold)
        /\ ret.hit =>
              \E i \in Positions :
                  /\ cache[i].value = ret.value
                  /\ \A j \in Positions : ~SimGT(SimTo(j), SimTo(i))
        /\ ~ret.hit => ret.value = NoValue

\* a get missed on an entry whose similarity to the query is exactly the
\* threshold
ThresholdBoundaryWitness ==
    /\ GetReturned /\ ~ret.hit
    /\ \E i \in Positions :
           ~SimGT(SimTo(i), threshold) /\ ~SimGT(threshold, SimTo(i))

IdempotentInsertion ==
    /\ SetReturned =>
          /\ Cardinality({i \in Positions : cache[i].key = RetKey}) = 1
          /\ \A i \in Positions :
                 cache[i].key = RetKey =>
                     cache[i].value = ret.call.value /\ cache[i].ts = ret.at
    /\ GetReturned =>
          \A i \in Positions :
              cache[i].key = RetKey => ret.hit /\ ret.value = cache[i].value

\* a get returned the value of an entry that had replaced another value
\* under the same key
IdempotentInsertionWitness ==
    /\ GetReturned /\ ret.hit
    /\ Len(cache) = 1
    /\ cache[1].key = RetKey
    /\ cache[1].prev \notin {NoValue, cache[1].value}
    /\ cache[1].value = ret.value

\* C6 as claimed: a get on a mapping without entries returns (false, None)
\* and never raises, whatever its embedding request does.
EmptyCacheNeverRaises ==
    (/\ ret.call.op = "get"
     /\ ret.outcome \in {"returned", "raised"}
     /\ cache = <<>> /\ ret.call.purged = {})
        => (ret.outcome = "returned" /\ ~ret.hit /\ ret.value = NoValue)

\* C6: empty cache miss.  A get on a mapping without entries returns
\* (false, None) whenever its embedding request answers; it raises only when
\* the embedding request raises.
EmptyCacheMiss ==
    (/\ ret.call.op = "get"
     /\ ret.outcome \in {"returned", "raised"}
     /\ cache = <<>> /\ ret.call.purged = {})
        => IF ret.outcome = "returned"
           THEN ~ret.hit /\ ret.value = NoValue
           ELSE ret.phase = "embedding"

EmptyCacheMissWitness ==
    /\ GetReturned /\ ~ret.hit /\ ret.value = NoValue
    /\ cache = <<>> /\ ret.call.purged = {}

\* C7: mutual exclusion.  At most one task is between taking and releasing
\* the lock (suspended in its embedding request), and it is the task the
\* lock records.
InCriticalSection(t) == pc[t] = "embedding"
MutualExclusion ==
    /\ Cardinality({t \in Tasks : InCriticalSection(t)}) <= 1
    /\ \A t \in Tasks : InCriticalSection(t) <=> lock = t

\* two gets at once: one inside, the other kept waiting
MutualExclusionWitness ==
    \E t, u \in Tasks :
        /\ InCriticalSection(t) /\ frame[t].op = "get"
        /\ pc[u] = "waiting" /\ frame[u].op = "get"

\* C8: no partial observation.  Every entry of the mapping is a complete
\* (value, timestamp) pair after every step, and no step changes the mapping
\* between the sweep and the scan of a get, so what a get scans is the
\* mapping its own sweep left.
NoPartialObservation ==
    [][/\ \A i \in 1..Len(cache') :
              cache'[i].value \in Values /\ cache'[i].ts \in 0..clock'
       /\ \A t \in Tasks :
              (/\ InCriticalSection(t) /\ frame[t].op = "get"
               /\ pc'[t] = "embedding")
                  => cache' = cache]_vars

\* a set is kept waiting while a get is between its sweep and its scan
NoPartialObservationWitness ==
    \E t, u \in Tasks :
        /\ InCriticalSection(t) /\ frame[t].op = "get"
        /\ pc[u] = "waiting" /\ frame[u].op = "set"

\* C9: cancellation.  A task cancelled while it waits for the lock or for
\* the embedding request leaves the call without the lock (a lock it held
\* is free) and out of the queue of waiters, and the mapping is as it was.
CancelReleases ==
    [][\A t \in Tasks :
           (/\ pc[t] \in {"waiting", "embedding"}
            /\ ret'.task = t /\ ret'.outcome = "cancelled")
               => /\ pc'[t] = "idle"
                  /\ lock' # t
                  /\ lock = t => lock' = NoTask
                  /\ \A i \in 1..Len(waiters') : waiters'[i] # t
                  /\ cache' = cache]_vars

\* a set was cancelled in its embedding request; the lock is free for the
\* task that waits
CancelReleasesWitness ==
    /\ ret.outcome = "cancelled" /\ ret.phase = "embedding"
    /\ ret.call.op = "set"
    /\ lock = NoTask /\ waiters # <<>>

\* C10: embedding failure.  When the embedding request raises, the call
\* ends with that exception at its caller (no hit, no value), the mapping is
\* as it was (a failing set wrote nothing) and the lock is free.
EmbeddingFailurePropagates ==
    [][\A t \in Tasks :
           (/\ pc[t] = "embedding"
            /\ ret'.task = t /\ ret'.outcome = "raised")
               => /\ pc'[t] = "idle"
                  /\ ~ret'.hit /\ ret'.value = NoValue
                  /\ cache' = cache
                  /\ lock' = NoTask]_vars

\* a set failed in its embedding request; the lock is free for the task
\* that waits
EmbeddingFailureWitness ==
    /\ ret.outcome = "raised" /\ ret.call.op = "set"
    /\ lock = NoTask /\ waiters # <<>>

\* the step in which task t takes the lock for a get: the sweep runs in it
SweepStep(t) ==
    pc[t] # "embedding" /\ pc'[t] = "embedding" /\ frame'[t].op = "get"

\* C13: full expiry sweep.  Each get, on taking the lock and before its
\* embedding request and its scan, removes from the mapping exactly the
\* entries whose age at that instant exceeds ttl_seconds: every such entry
\* is gone, every entry of age <= ttl_seconds stays as it was, in the same
\* order, and nothing is added.
FullExpirySweep ==
    [][\A t \in Tasks :
           SweepStep(t) =>
               /\ \A i \in 1..Len(cache) :
                      (clock - cache[i].ts > TTL)
                          <=> ~(\E j \in 1..Len(cache') : cache'[j] = cache[i])
               /\ \A j \in 1..Len(cache') :
                      \E i \in 1..Len(cache) : cache[i] = cache'[j]
               /\ \A j, k \in 1..Len(cache') :
                      j < k => Index(cache, cache'[j].key) < Index(cache, cache'[k].key)]_vars

\* a get has just swept: an entry older than ttl_seconds is gone and an
\* entry of age exactly ttl_seconds is still there
FullExpirySweepWitness ==
    \E t \in Tasks :
        /\ pc[t] = "embedding" /\ frame[t].op = "get"
        /\ frame[t].now = clock
        /\ frame[t].purged # {}
        /\ \E i \in Positions : clock - cache[i].ts = TTL

\* C14: set never evicts.  When a set completes, every key that was in the
\* mapping other than the key it inserts is still there with the same
\* value and timestamp, entries older than ttl_seconds included; and a step
\* that removes a key from the mapping is the sweep of a get.
SetNeverEvicts ==
    [][/\ (ret'.outcome = "returned" /\ ret'.call.op = "set") =>
              \A i \in 1..Len(cache) :
                  cache[i].key # Embed(KeyText(ret'.call.text, ret'.call.normalized_city))
                      => \E j \in 1..Len(cache') :
                             /\ cache'[j].key = cache[i].key
                             /\ cache'[j].value = cache[i].value
                             /\ cache'[j].ts = cache[i].ts
       /\ ~(Keys(cache) \subseteq Keys(cache')) => \E t \in Tasks : SweepStep(t)]_vars

\* a set returned and an entry under another key, older than ttl_seconds
\* at that moment, is still in the mapping
SetNeverEvictsWitness ==
    /\ SetReturned
    /\ \E i \in Positions : cache[i].key # RetKey /\ ret.at - cache[i].ts > TTL

\* the entries whose similarity to the finished get's query is the maximum
MaxPositions == {i \in Positions : \A j \in Positions : ~SimGT(SimTo(j), SimTo(i))}
FirstOf(S) == CHOOSE i \in S : \A j \in S : i <= j
LastOf(S) == CHOOSE i \in S : \A j \in S : i >= j

\* C19 as claimed: when several live entries have the same maximum
\* similarity to the query, above the threshold, get returns the value of
\* the one that is last in the mapping's insertion order.
TieBreakLast ==
    (GetReturned /\ ret.hit) =>
        /\ ret.value = cache[LastOf(MaxPositions)].value
        /\ ret.ts = cache[LastOf(MaxPositions)].ts

\* C19: tie-break.  When several live entries have the same maximum
\* similarity to the query, above the threshold, get returns the value of
\* the one met first in the scan, that is first in the mapping's insertion
\* order: a later entry replaces the best match only when its similarity is
\* strictly greater.
TieBreakFirst ==
    (GetReturned /\ ret.hit) =>
        /\ ret.value = cache[FirstOf(MaxPositions)].value
        /\ ret.ts = cache[FirstOf(MaxPositions)].ts

\* a get hit with two entries of the same maximum similarity holding
\* different values, and returned the value of the earlier one
TieBreakFirstWitness ==
    /\ GetReturned /\ ret.hit
    /\ \E i, j \in MaxPositions :
           /\ i < j
           /\ cache[i].value # cache[j].value
           /\ ret.value = cache[i].value

\* C20: the lock is held across the awaited embedding request.  While a
\* task's get or set awaits its embedding, no step lets another task start
\* its sweep or its own embedding request, and the mapping changes only by
\* the insertion of the awaiting task itself as its call ends; so at most
\* one embedding request per cache is in flight.
LockHeldAcrossEmbedding ==
    [][\A t \in Tasks :
           pc[t] = "embedding" =>
               /\ \A u \in Tasks \ {t} : pc[u] # "embedding" /\ pc'[u] # "embedding"
               /\ cache' # cache =>
                      /\ pc'[t] = "idle" /\ frame[t].op = "set"
                      /\ ret'.task = t /\ ret'.outcome = "returned"]_vars

\* a get is kept waiting while a set awaits its embedding
LockHeldAcrossEmbeddingWitness ==
    \E t, u \in Tasks :
        /\ pc[t] = "embedding" /\ frame[t].op = "set"
        /\ pc[u] = "waiting" /\ frame[u].op = "get"

\* what the step just taken returned from a wrapped call
WrapperReturned == out.outcome = "returned"
OutKey == Embed(KeyText(out.request.text, out.request.normalized_city))

\* C11: cache-aside.  In every call of a wrapped function (and of
\* analyze_weather_data) the expensive function is invoked at most once, and
\* only after the get of that call missed.  A call whose get missed returns
\* the result of its one invocation, unmodified, and at that moment the
\* mapping holds that result under the request's key; a call whose get hit
\* returns the cached value without having invoked the function.
CacheAside ==
    /\ \A t \in Tasks :
           /\ wrap[t].invoked = (IF wrap[t].stage \in {"func", "set"} THEN 1 ELSE 0)
           /\ wrap[t].invoked = 1 => ~wrap[t].hit
    /\ WrapperReturned =>
           IF out.hit
           THEN /\ out.invoked = 0
                /\ out.value = out.got
                /\ \E i \in Positions : cache[i].value = out.value
           ELSE /\ out.invoked = 1
                /\ out.value = out.result
                /\ \E i \in Positions :
                       /\ cache[i].key = OutKey
                       /\ cache[i].value = out.result
                       /\ cache[i].ts = clock

\* a call returned the value a previous call had computed and stored,
\* without invoking the function
CacheAsideWitness ==
    /\ WrapperReturned /\ out.hit /\ out.invoked = 0
    /\ sets > 0
    /\ \E i \in Positions : cache[i].key = OutKey /\ cache[i].value = out.value

\* C12: when the embedding request of a cache get or set raises, the caller
\* of the cache does not fail: it goes on as after a miss and returns the
\* result of the expensive function.
CacheFailureIsMiss ==
    (ret.outcome = "raised" /\ ret.phase = "embedding") => out.outcome # "raised"

\* C15: rate limit of batch text classification.  Whatever the size of the
\* batch, at most 10 LLM requests of process_item are in flight at a time,
\* the semaphore's permits and the slots held add up to 10, an item waits
\* only while all 10 slots are held, and an item beyond the tenth has
\* started only if some other item has already finished.
RateLimit ==
    LET N == 1..Len(items)
        holders == {i \in N : istate[i] \in {"woken", "inflight"}}
    IN  /\ Cardinality(InFlight) <= 10
        /\ permits + Cardinality(holders) = 10
        /\ \A i \in N : istate[i] = "queued" => Cardinality(holders) = 10
        /\ \A i \in N :
               (i > 10 /\ istate[i] \in {"woken", "inflight", "done"})
                   => \E j \in N \ {i} : istate[j] = "done"

\* the request of an item beyond the tenth is in flight together with nine
\* others
RateLimitWitness ==
    /\ Cardinality(InFlight) = 10
    /\ \E i \in InFlight : i > 10

\* C16: failure isolation of batch text classification.  An item that fails
\* (no text or a non-string text under the field, or an LLM request that
\* raises) gets an error result (originalText "<error>", duration -1, the
\* error message as classification) and every other item gets its own
\* result; a response that carries results carries exactly one per item of
\* the batch, in the order of the batch, each with the itemId of its item.
IsErrorResult(r, item) ==
    /\ r.itemId = item.itemId
    /\ r.originalText = "<error>"
    /\ r.duration = -1
    /\ r.classification = (IF item.kind = "notext" THEN "no text" ELSE "llm error")
IsSuccessResult(r, item) ==
    /\ r.itemId = item.itemId
    /\ r.originalText = "text"
    /\ r.duration >= 0
    /\ r.classification = "label"
ResultFits(r, item) ==
    IF item.kind = "valid" THEN IsSuccessResult(r, item) ELSE IsErrorResult(r, item)
FailureIsolation ==
    /\ \A i \in 1..Len(items) :
           IF istate[i] = "done" THEN ResultFits(results[i], items[i])
           ELSE results[i] = NoResult
    /\ response.status = "results" =>
           /\ Len(response.body) = Len(items)
           /\ \A i \in 1..Len(items) : ResultFits(response.body[i], items[i])

\* a response with the success result of one item between the error
\* results of an item without text and of an item whose LLM request raised
FailureIsolationWitness ==
    /\ response.status = "results"
    /\ \E i, j, k \in 1..Len(items) :
           /\ i < j /\ j < k
           /\ IsSuccessResult(response.body[i], items[i])
           /\ items[j].kind = "failing" /\ IsErrorResult(response.body[j], items[j])
           /\ items[k].kind = "notext" /\ IsErrorResult(response.body[k], items[k])

\* the contents of the chunks that had any, in the order they arrived
Deltas == SelectSeq(chunks, LAMBDA c : c # "")

\* C17: order of the SSE protocol.  A stream that ran to its end without an
\* error has emitted exactly: one start, one text-start, one text-delta for
\* each chunk that had content, in the order the chunks arrived and all with
\* the id of the text-start, one text-end, one finish, and [DONE] as its
\* last item; nothing comes after [DONE].
SseOrder ==
    /\ sse_pc \in {"done", "ended"} =>
           LET n == Len(emitted)
           IN  /\ n = Len(Deltas) + 5
               /\ emitted[1].type = "start"
               /\ emitted[2].type = "text-start"
               /\ \A k \in 1..Len(Deltas) :
                      /\ emitted[2 + k].type = "text-delta"
                      /\ emitted[2 + k].id = emitted[2].id
                      /\ emitted[2 + k].delta = Deltas[k]
               /\ emitted[n - 2].type = "text-end"
               /\ emitted[n - 2].id = emitted[2].id
               /\ emitted[n - 1].type = "finish"
               /\ emitted[n].type = "[DONE]"
    /\ \A k \in 1..Len(emitted) : emitted[k].type = "[DONE]" => k = Len(emitted)
    /\ sse_pc = "ended" => emitted[Len(emitted)].type = "[DONE]"

\* a stream ended after two deltas of different content and a chunk
\* without content
SseOrderWitness ==
    /\ sse_pc = "ended"
    /\ Len(Deltas) >= 2 /\ Deltas[1] # Deltas[2]
    /\ Len(chunks) > Len(Deltas)

\* the lines of a stream are one per image, each a success or an error
\* object with the imageId of its image, in the order the images finished
OnePerImage ==
    /\ Len(lines) = Len(images)
    /\ \A i \in 1..Len(images) :
           Cardinality({k \in 1..Len(lines) : lines[k].imageId = images[i].imageId}) = 1
    /\ \A k \in 1..Len(lines) :
           \/ lines[k].keys = {"imageId", "text", "ttft", "duration"}
           \/ lines[k].keys = {"imageId", "error"}
    /\ lines = completed

Written == {j \in 1..Len(cache') : \A i \in 1..Len(cache) : cache[i] # cache'[j]}

\* C21: order of entry creation.  An entry is written only by the set of a
\* wrapped call whose get missed and whose expensive function has returned,
\* and it holds that function's result; a call whose get hit ends without
\* having written, and so does a call whose function raised.
EntryCreationOrder ==
    [][/\ Written # {} =>
              \E t \in Tasks :
                  /\ wrap[t].stage = "set" /\ ~wrap[t].hit /\ wrap[t].invoked = 1
                  /\ out'.task = t /\ out'.outcome = "returned"
                  /\ \A j \in Written :
                         /\ cache'[j].value = wrap[t].result
                         /\ cache'[j].key =
                                Embed(KeyText(wrap[t].request.text,
                                              wrap[t].request.normalized_city))
       /\ \A t \in Tasks : wrap[t].hit => wrap[t].stage \notin {"func", "set"}
       /\ (out'.outcome = "returned" /\ out'.hit) => Written = {}
       /\ (out'.outcome = "raised" /\ out'.cause = "func") => cache' = cache]_vars

\* a call whose get had missed returned after its function: its result is
\* the entry just written under the request's key
EntryCreationOrderWitness ==
    /\ WrapperReturned /\ ~out.hit /\ out.invoked = 1
    /\ \E i \in Positions :
           /\ cache[i].key = OutKey /\ cache[i].value = out.result
           /\ cache[i].ts = clock /\ cache[i].prev = NoValue

\* C25: the lock is not held while the expensive function runs.  A call
\* that awaits its function holds no lock and waits for none, so a second
\* call with the same key text can get, miss and invoke the function too;
\* whenever one of them completes its set, the mapping holds exactly one
\* entry under that key, with the value of that set, the last to have run.
ConcurrentMisses ==
    /\ \A t \in Tasks :
           wrap[t].stage = "func" =>
               /\ lock # t /\ pc[t] = "idle"
               /\ \A i \in 1..Len(waiters) : waiters[i] # t
    /\ (WrapperReturned /\ ~out.hit) =>
           /\ Cardinality({i \in Positions : cache[i].key = OutKey}) = 1
           /\ \A i \in Positions :
                  cache[i].key = OutKey =>
                      cache[i].value = out.result /\ cache[i].ts = clock

\* two calls with the same key text both missed and both invoked the
\* function: the one that returns now has replaced, under the one entry of
\* that key, the other value the other call had stored meanwhile
ConcurrentMissesWitness ==
    /\ WrapperReturned /\ ~out.hit /\ out.invoked = 1
    /\ Cardinality({i \in Positions : cache[i].key = OutKey}) = 1
    /\ \E i \in Positions :
           /\ cache[i].key = OutKey /\ cache[i].value = out.result
           /\ cache[i].prev \notin {NoValue, out.result}

\* C26: a get whose embedding request raises or is cancelled has done its
\* sweep for good.  In the step in which it ends the mapping does not
\* change: the keys its sweep removed are still absent, and every entry the
\* sweep kept (age <= ttl_seconds at the sweep) is there with its value and
\* timestamp.
SweepNotRolledBack ==
    [][\A t \in Tasks :
           (/\ pc[t] = "embedding" /\ frame[t].op = "get"
            /\ ret'.task = t /\ ret'.outcome \in {"raised", "cancelled"})
               => /\ cache' = cache
                  /\ \A k \in frame[t].purged : k \notin Keys(cache')
                  /\ \A i \in 1..Len(cache') : frame[t].now - cache'[i].ts <= TTL]_vars

\* a get failed after its sweep had removed one entry and kept another
SweepNotRolledBackWitness ==
    /\ ret.outcome \in {"raised", "cancelled"} /\ ret.phase = "embedding"
    /\ ret.call.op = "get"
    /\ ret.call.purged # {}
    /\ cache # <<>>
    /\ \A k \in ret.call.purged : k \notin Keys(cache)

ErrorEvents == {k \in 1..Len(emitted) : emitted[k].type = "error"}

\* C22: error path of the SSE stream.  When an exception occurs while the
\* stream is generated (in the setup, in the LLM request, or while a chunk
\* is awaited), one error event is appended to what was emitted and nothing
\* is ever emitted after it: a failed stream holds exactly one error event,
\* as its last item, and no text-end, finish or [DONE]; and no step takes
\* back an event already emitted.
SseErrorPath ==
    [][/\ Len(emitted) <= Len(emitted')
       /\ \A k \in 1..Len(emitted) : emitted'[k] = emitted[k]
       /\ (sse_pc' = "error" /\ sse_pc # "error") =>
              /\ sse_pc \in {"new", "request", "streaming"}
              /\ emitted' = Append(emitted, [type |-> "error", id |-> "none", delta |-> ""])
       /\ sse_pc' \in {"error", "failed"} =>
              /\ {k \in 1..Len(emitted') : emitted'[k].type = "error"} = {Len(emitted')}
              /\ \A k \in 1..Len(emitted') :
                     emitted'[k].type \notin {"text-end", "finish", "[DONE]"}
       /\ sse_pc \in {"error", "failed"} => emitted' = emitted]_vars

\* a stream failed while its chunks arrived: start, text-start and a delta
\* are followed by the error event, and the generator has returned
SseErrorPathWitness ==
    /\ sse_pc = "failed"
    /\ ErrorEvents = {Len(emitted)}
    /\ Len(emitted) >= 4
    /\ emitted[3].type = "text-delta"

\* what the claim calls retried: HTTPStatusError with a status other than
\* 404, or ReadTimeout
Retried(r) ==
    \/ r.class = "HTTPStatusError" /\ r.status # 404
    \/ r.class = "ReadTimeout"

\* C24: retry policy of get_weather.  One call makes at most 3 attempts; an
\* attempt is followed by another only if it raised HTTPStatusError with a
\* status other than 404, or ReadTimeout; a 404 answer, a missing API key
\* or any other exception ends the call after that attempt with an
\* HTTPException (404 for the 404 answer, 500 otherwise).
RetryPolicy ==
    LET n == Len(responses)
    IN  /\ attempt_number <= 3
        /\ n <= attempt_number
        /\ \A k \in 1..n : k < attempt_number => Retried(responses[k])
        /\ ~api_key =>
               /\ attempt_number <= 1
               /\ attempt_number = 1 =>
                      /\ weather_pc = "done"
                      /\ weather_out.exception = [class |-> "HTTPException", status |-> 500]
        /\ (n > 0 /\ n = attempt_number /\ responses[n].class # "ok"
                /\ ~Retried(responses[n])) =>
               /\ weather_pc = "done"
               /\ weather_out.kind = "raised"
               /\ weather_out.exception =
                      [class |-> "HTTPException",
                       status |-> IF responses[n].class = "HTTPStatusError"
                                  THEN 404 ELSE 500]
        /\ (n > 0 /\ n = attempt_number /\ Retried(responses[n])) =>
               IF n < 3 THEN weather_pc = "sleeping"
               ELSE weather_pc = "done" /\ weather_out.exception.class = "RetryError"

\* the second attempt, made after a 503, got a 404: the call ended there
\* with HTTPException(404)
RetryPolicyWitness ==
    /\ weather_pc = "done"
    /\ attempt_number = 2 /\ Len(responses) = 2
    /\ responses[1] = [class |-> "HTTPStatusError", status |-> 503]
    /\ responses[2] = [class |-> "HTTPStatusError", status |-> 404]
    /\ weather_out.exception = [class |-> "HTTPException", status |-> 404]

\* the moves the attempts before the present one were rejected for
Rejected == {errors[k].move : k \in DOMAIN errors} \ {NoMove}

\* the feedback left by the attempts 1..n: that of the last one that was
\* rejected for an illegal or an already tried move, none if there is none
RECURSIVE LastFeedback(_)
LastFeedback(n) ==
    IF n = 0 THEN NoFeedback
    ELSE IF errors[n].kind \in {"illegal", "tried"}
         THEN [kind |-> errors[n].kind, move |-> errors[n].move, attempt |-> n]
         ELSE LastFeedback(n - 1)

\* what holds of get_team_move whatever the feedback is: a returned move is
\* legal and was not rejected before, there are at most three attempts,
\* each with a team of its own, and the call raises ValueError exactly when
\* the third attempt has failed too
MoveSelection ==
    /\ chess_attempt \in 1..ChessAttempts
    /\ Len(teams) = chess_attempt
    /\ chess_out.kind = "returned" =>
           /\ chess_out.move \in LegalMoves
           /\ chess_out.move \notin Rejected
           /\ Len(errors) = chess_attempt - 1
    /\ chess_out.kind = "ValueError" =>
           /\ Len(errors) = ChessAttempts
           /\ chess_attempt = ChessAttempts
    /\ chess_pc = "done" <=> chess_out.kind \in {"returned", "ValueError"}
    /\ chess_pc = "thinking" => Len(errors) = chess_attempt - 1

\* C23 as stated: get_team_move returns a move only if it is legal, makes at
\* most three attempts, each with a newly created team and, after the
\* first, feedback about the error of the attempt before it, never accepts
\* a move it has tried, and raises ValueError when no attempt yields a
\* legal move.
ChessMoveWithPreviousError ==
    /\ MoveSelection
    /\ \A k \in 2..Len(teams) : teams[k].attempt = k - 1

\* C23 amended: as above, but the feedback a team after the first is created
\* with is that of the last attempt rejected for an illegal or an already
\* tried move, which need not be the attempt before it, and is empty when
\* every attempt so far failed otherwise (a malformed answer, an error of
\* the stream, a stream without an approved move).
ChessMoveSelection ==
    /\ MoveSelection
    /\ teams[1] = NoFeedback
    /\ \A k \in 2..Len(teams) : teams[k] = LastFeedback(k - 1)

\* a legal move is returned by the third attempt, whose team was created
\* with the feedback of the first attempt because the second failed in the
\* stream
ChessMoveSelectionWitness ==
    /\ chess_out.kind = "returned"
    /\ chess_attempt = ChessAttempts
    /\ errors[1].kind = "illegal"
    /\ errors[2].kind = "stream"
    /\ teams[3].attempt = 1

====
